---- MODULE Spec2Model ----
(***************************************************************************)
(* Model of spacex-dash-app.py: a Dash page with a site dropdown, a        *)
(* payload range slider and two charts recomputed by two callbacks,        *)
(* get_pie_chart and get_scatter_chart, over the DataFrame spacex_df.      *)
(*                                                                         *)
(* A DataFrame is a sequence of rows; a row is a function from column      *)
(* names to values, with the row's index label under "index".  A figure    *)
(* is the plotly-express call that built it: the frame handed over, the    *)
(* column bindings and the title.                                          *)
(***************************************************************************)
EXTENDS Integers, Sequences, FiniteSets, TLC

\* ---- bounds of the model ------------------------------------------------
MaxLen == 2        \* rows of the loaded csv: 1..MaxLen
MaxTick == 1       \* slider steps a user or client picks: the first MaxTick+1

\* ---- the widgets' fixed numbers (RangeSlider min, max, step) -------------
slider_min == 0
slider_max == 10000
slider_step == 1000

\* ---- the values the csv's columns are drawn from -------------------------
Sites == {"A", "B"}
UnknownSite == "X"           \* a site identifier with no row in any dataset
NoneSite == "<None>"         \* Python None: the dropdown after it is cleared
Payloads == {500, 1000, 12000}
Classes == {0, 1}
Boosters == {"FT"}

VARIABLES spacex_df, min_payload, max_payload, dropdown_options,
          site_dropdown, payload_slider, pending,
          pie_chart, scatter_chart, exc

vars == <<spacex_df, min_payload, max_payload, dropdown_options,
          site_dropdown, payload_slider, pending,
          pie_chart, scatter_chart, exc>>

loaded == <<spacex_df, min_payload, max_payload, dropdown_options>>

\* ---- pandas ---------------------------------------------------------------
RowData ==
  {("Launch Site" :> s) @@ ("Payload Mass (kg)" :> p) @@ ("class" :> c)
      @@ ("Booster Version Category" :> b) :
      s \in Sites, p \in Payloads, c \in Classes, b \in Boosters}

\* the csv files: at least one row (max() and min() of an empty column are NaN)
CsvFiles == UNION {[1..n -> RowData] : n \in 1..MaxLen}

\* pd.read_csv: the rows in file order, index labels 0, 1, 2, ...
read_csv(csv) == [i \in 1..Len(csv) |-> csv[i] @@ ("index" :> i - 1)]

\* df[col]
Column(df, col) == [i \in 1..Len(df) |-> df[i][col]]

\* Series.max(), Series.min() of a non-empty series
series_max(s) == CHOOSE m \in {s[i] : i \in 1..Len(s)} :
                    \A i \in 1..Len(s) : s[i] <= m
series_min(s) == CHOOSE m \in {s[i] : i \in 1..Len(s)} :
                    \A i \in 1..Len(s) : m <= s[i]

\* df[mask]: the rows whose mask entry is true, in order, index labels kept
RECURSIVE BoolIndex(_, _)
BoolIndex(df, mask) ==
  IF df = <<>> THEN <<>>
  ELSE (IF mask[1] THEN <<df[1]>> ELSE <<>>)
         \o BoolIndex(Tail(df), Tail(mask))

Contains(s, v) == \E i \in 1..Len(s) : s[i] = v

\* Series.unique(): the distinct values in order of first appearance
RECURSIVE uniqueFrom(_, _)
uniqueFrom(s, seen) ==
  IF s = <<>> THEN seen
  ELSE uniqueFrom(Tail(s), IF Contains(seen, s[1]) THEN seen
                           ELSE Append(seen, s[1]))

unique(s) == uniqueFrom(s, <<>>)

CountOf(s, v) == Cardinality({i \in 1..Len(s) : s[i] = v})

\* stable sort of rows by "count", largest first
RECURSIVE InsertDesc(_, _)
InsertDesc(r, rows) ==
  IF rows = <<>> THEN <<r>>
  ELSE IF rows[1]["count"] <= r["count"] THEN <<r>> \o rows
  ELSE <<rows[1]>> \o InsertDesc(r, Tail(rows))

RECURSIVE SortDesc(_)
SortDesc(rows) ==
  IF rows = <<>> THEN <<>>
  ELSE InsertDesc(rows[1], SortDesc(Tail(rows)))

\* df['class'].value_counts().reset_index() with columns ['class', 'count']
value_counts(s) ==
  LET u == unique(s)
      counted == SortDesc([k \in 1..Len(u) |->
                   ("class" :> u[k]) @@ ("count" :> CountOf(s, u[k]))])
  IN [k \in 1..Len(counted) |-> counted[k] @@ ("index" :> k - 1)]

\* ---- plotly express ---------------------------------------------------------
\* px.pie(data_frame, values=..., names=..., title=...)
px_pie(frame, values, names, title) ==
  [kind |-> "pie", frame |-> frame,
   bind |-> [values |-> values, names |-> names], title |-> title]

\* px.scatter(data_frame, x=..., y=..., color=..., title=...)
px_scatter(frame, x, y, color, title) ==
  [kind |-> "scatter", frame |-> frame,
   bind |-> [x |-> x, y |-> y, color |-> color], title |-> title]

\* dcc.Graph(id=...) before its callback has returned a figure
NoFigure == [kind |-> "none", frame |-> <<>>, bind |-> <<>>, title |-> <<>>]

RECURSIVE SumOver(_, _, _, _)
SumOver(frame, names, values, label) ==
  IF frame = <<>> THEN 0
  ELSE (IF frame[1][names] = label THEN frame[1][values] ELSE 0)
         + SumOver(Tail(frame), names, values, label)

\* the sectors of a pie figure: one per distinct name, in order of first
\* appearance, its value the sum of the values column over the name's rows
Sectors(fig) ==
  LET labels == unique(Column(fig.frame, fig.bind.names))
  IN [k \in 1..Len(labels) |->
        [label |-> labels[k],
         v |-> SumOver(fig.frame, fig.bind.names, fig.bind.values, labels[k])]]

\* ---- startup (module level of the script) -----------------------------------
\* variant: the column taken as it is, without unique()
launch_sites_all_rows(df) == Column(df, "Launch Site")

\* launch_sites = spacex_df['Launch Site'].unique()
launch_sites(df) == unique(Column(df, "Launch Site"))

\* dropdown_options: 'ALL' first, then one option per launch site
options_for(df) ==
  <<[label |-> "All Sites", value |-> "ALL"]>>
    \o [k \in 1..Len(launch_sites(df)) |->
          [label |-> launch_sites(df)[k], value |-> launch_sites(df)[k]]]

\* ---- the callbacks ------------------------------------------------------------
\* a callback returns a figure (exc = "None") or raises (fig is then unused)
Returned(fig) == [exc |-> "None", fig |-> fig]
Raised(e) == [exc |-> e, fig |-> NoFigure]

\* spacex_df['Launch Site'] == entered_site
SiteMask(df, entered_site) ==
  [i \in 1..Len(df) |-> df[i]["Launch Site"] = entered_site]

\* variant: the upper bound taken as exclusive
PayloadMask_exclusive(df, low, high) ==
  [i \in 1..Len(df) |-> /\ df[i]["Payload Mass (kg)"] >= low
                        /\ df[i]["Payload Mass (kg)"] < high]

\* (spacex_df['Payload Mass (kg)'] >= low) & (spacex_df['Payload Mass (kg)'] <= high)
PayloadMask(df, low, high) ==
  [i \in 1..Len(df) |-> /\ df[i]["Payload Mass (kg)"] >= low
                        /\ df[i]["Payload Mass (kg)"] <= high]

\* variant: the per-site branch counts the outcomes of the whole frame
get_pie_chart_unfiltered(entered_site) ==
  IF entered_site = "ALL"
  THEN Returned(px_pie(spacex_df, "class", "Launch Site",
                       <<"Total Success Launches By Site (All Sites)">>))
  ELSE LET success_counts == value_counts(Column(spacex_df, "class"))
       IN Returned(px_pie(success_counts, "count", "class",
                          <<"Total Success vs. Failed Launches for ", entered_site>>))

\* variant: the all-sites branch counts rows per site instead of summing class
get_pie_chart_row_counts(entered_site) ==
  IF entered_site = "ALL"
  THEN Returned(px_pie(value_counts(Column(spacex_df, "Launch Site")),
                       "count", "class",
                       <<"Total Success Launches By Site (All Sites)">>))
  ELSE LET filtered_df == BoolIndex(spacex_df, SiteMask(spacex_df, entered_site))
           success_counts == value_counts(Column(filtered_df, "class"))
       IN Returned(px_pie(success_counts, "count", "class",
                          <<"Total Success vs. Failed Launches for ", entered_site>>))

get_pie_chart(entered_site) ==
  IF entered_site = "ALL"
  THEN Returned(px_pie(spacex_df, "class", "Launch Site",
                       <<"Total Success Launches By Site (All Sites)">>))
  ELSE LET filtered_df == BoolIndex(spacex_df, SiteMask(spacex_df, entered_site))
           success_counts == value_counts(Column(filtered_df, "class"))
       IN Returned(px_pie(success_counts, "count", "class",
                          <<"Total Success vs. Failed Launches for ", entered_site>>))

\* variant: the per-site branch plots the payload-filtered frame of all sites
get_scatter_chart_no_site_filter(entered_site, payload_range) ==
  IF Len(payload_range) # 2
  THEN Raised("ValueError")
  ELSE LET filtered_payload_df ==
             BoolIndex(spacex_df,
                       PayloadMask(spacex_df, payload_range[1], payload_range[2]))
       IN Returned(px_scatter(filtered_payload_df, "Payload Mass (kg)", "class",
              "Booster Version Category",
              IF entered_site = "ALL"
              THEN <<"Correlation between Payload and Success for All Sites">>
              ELSE <<"Correlation between Payload and Success for ", entered_site>>))

get_scatter_chart(entered_site, payload_range) ==
  IF Len(payload_range) # 2
  THEN Raised("ValueError")          \* low, high = payload_range
  ELSE LET low == payload_range[1]
           high == payload_range[2]
           filtered_payload_df ==
             BoolIndex(spacex_df, PayloadMask(spacex_df, low, high))
       IN IF entered_site = "ALL"
          THEN Returned(px_scatter(filtered_payload_df, "Payload Mass (kg)", "class",
                  "Booster Version Category",
                  <<"Correlation between Payload and Success for All Sites">>))
          ELSE LET filtered_site_payload_df ==
                     BoolIndex(filtered_payload_df,
                               SiteMask(filtered_payload_df, entered_site))
               IN Returned(px_scatter(filtered_site_payload_df, "Payload Mass (kg)",
                      "class", "Booster Version Category",
                      <<"Correlation between Payload and Success for ", entered_site>>))

\* variant: get_scatter_chart listens to the slider only
CallbackInputs_slider_only ==
  [get_pie_chart |-> {"site-dropdown"},
   get_scatter_chart |-> {"payload-slider"}]

\* @app.callback(Output(...), Input(...)): the component properties each
\* callback takes as Input
CallbackInputs ==
  [get_pie_chart |-> {"site-dropdown"},
   get_scatter_chart |-> {"site-dropdown", "payload-slider"}]

\* the callbacks a change of the property fires
Triggered(prop) == {cb \in DOMAIN CallbackInputs : prop \in CallbackInputs[cb]}

\* ---- the widgets ----------------------------------------------------------------
\* the slider steps the model picks from: min, min+step, ... within [min, max]
Ticks == {t \in {slider_min + k * slider_step : k \in 0..MaxTick} : t <= slider_max}

\* the values a dropdown offers: its options, or None once cleared
DropdownValues ==
  {dropdown_options[k].value : k \in 1..Len(dropdown_options)} \cup {NoneSite}

\* variant: the two values reported in handle order, crossed or not
MoveHandle_unsorted(value, h, t) == [value EXCEPT ![h] = t]

\* RangeSlider: handle h dragged to step t; the other handle keeps its value
\* and the two values are reported in ascending order
MoveHandle(value, h, t) ==
  LET moved == [value EXCEPT ![h] = t]
  IN IF moved[1] <= moved[2] THEN moved ELSE <<moved[2], moved[1]>>

\* ---- the state machine ------------------------------------------------------------
Init ==
  /\ \E csv \in CsvFiles : spacex_df = read_csv(csv)
  /\ max_payload = series_max(Column(spacex_df, "Payload Mass (kg)"))
  /\ min_payload = series_min(Column(spacex_df, "Payload Mass (kg)"))
  /\ dropdown_options = options_for(spacex_df)
  /\ site_dropdown = "ALL"
  /\ payload_slider = <<min_payload, max_payload>>
  /\ pending = DOMAIN CallbackInputs      \* every callback fires on page load
  /\ pie_chart = NoFigure
  /\ scatter_chart = NoFigure
  /\ exc = "None"

\* the user picks an option of the dropdown, or clears it
SiteDropdownChanged ==
  /\ pending = {}
  /\ \E v \in DropdownValues :
       /\ v # site_dropdown
       /\ site_dropdown' = v
  /\ pending' = Triggered("site-dropdown")
  /\ UNCHANGED <<loaded, payload_slider, pie_chart, scatter_chart, exc>>

\* the user drags one handle of the range slider
PayloadSliderChanged ==
  /\ pending = {}
  /\ Len(payload_slider) = 2
  /\ \E h \in 1..2, t \in Ticks :
       /\ MoveHandle(payload_slider, h, t) # payload_slider
       /\ payload_slider' = MoveHandle(payload_slider, h, t)
  /\ pending' = Triggered("payload-slider")
  /\ UNCHANGED <<loaded, site_dropdown, pie_chart, scatter_chart, exc>>

\* Dash runs get_pie_chart with the current value of its Input
Run_get_pie_chart ==
  /\ "get_pie_chart" \in pending
  /\ LET r == get_pie_chart(site_dropdown)
     IN /\ exc' = r.exc
        /\ pie_chart' = IF r.exc = "None" THEN r.fig ELSE pie_chart
  /\ pending' = pending \ {"get_pie_chart"}
  /\ UNCHANGED <<loaded, site_dropdown, payload_slider, scatter_chart>>

\* variant: the callback rebinds the global spacex_df to its filtered frame
Run_get_scatter_chart_in_place ==
  /\ "get_scatter_chart" \in pending
  /\ LET r == get_scatter_chart(site_dropdown, payload_slider)
     IN /\ exc' = r.exc
        /\ scatter_chart' = IF r.exc = "None" THEN r.fig ELSE scatter_chart
        /\ spacex_df' = IF r.exc = "None" THEN r.fig.frame ELSE spacex_df
  /\ pending' = pending \ {"get_scatter_chart"}
  /\ UNCHANGED <<min_payload, max_payload, dropdown_options,
                 site_dropdown, payload_slider, pie_chart>>

\* Dash runs get_scatter_chart with the current values of its Inputs
Run_get_scatter_chart ==
  /\ "get_scatter_chart" \in pending
  /\ LET r == get_scatter_chart(site_dropdown, payload_slider)
     IN /\ exc' = r.exc
        /\ scatter_chart' = IF r.exc = "None" THEN r.fig ELSE scatter_chart
  /\ pending' = pending \ {"get_scatter_chart"}
  /\ UNCHANGED <<loaded, site_dropdown, payload_slider, pie_chart>>

Next ==
  \/ SiteDropdownChanged
  \/ PayloadSliderChanged
  \/ Run_get_pie_chart
  \/ Run_get_scatter_chart

Spec == Init /\ [][Next]_vars

\* ---- any client of the callback endpoint -------------------------------------------
\* a client is not bound by the widgets: any site value, a range in either
\* order, or a range that is not a pair
ClientSites ==
  {dropdown_options[k].value : k \in 1..Len(dropdown_options)} \cup {UnknownSite}

ClientRanges == (Ticks \X Ticks) \cup {<<slider_min>>}

ClientSetsSite ==
  /\ pending = {}
  /\ \E v \in ClientSites :
       /\ v # site_dropdown
       /\ site_dropdown' = v
  /\ pending' = Triggered("site-dropdown")
  /\ UNCHANGED <<loaded, payload_slider, pie_chart, scatter_chart, exc>>

ClientSetsRange ==
  /\ pending = {}
  /\ \E r \in ClientRanges :
       /\ r # payload_slider
       /\ payload_slider' = r
  /\ pending' = Triggered("payload-slider")
  /\ UNCHANGED <<loaded, site_dropdown, pie_chart, scatter_chart, exc>>

NextOpen ==
  \/ ClientSetsSite
  \/ ClientSetsRange
  \/ Run_get_pie_chart
  \/ Run_get_scatter_chart

SpecOpen == Init /\ [][NextOpen]_vars

\* ---- vocabulary of the properties ---------------------------------------------------
Rows == 1..Len(spacex_df)
SiteOf(i) == spacex_df[i]["Launch Site"]
PayloadOf(i) == spacex_df[i]["Payload Mass (kg)"]
ClassOf(i) == spacex_df[i]["class"]
KnownSites == {SiteOf(i) : i \in Rows}
RowsOfSite(s) == {i \in Rows : SiteOf(i) = s}
SuccessesOf(s) == {i \in Rows : SiteOf(i) = s /\ ClassOf(i) = 1}
FirstRowOf(s) == CHOOSE i \in RowsOfSite(s) : \A j \in RowsOfSite(s) : i <= j

PieDone == "get_pie_chart" \notin pending
ScatterDone == "get_scatter_chart" \notin pending
IsPair == Len(payload_slider) = 2
low == payload_slider[1]
high == payload_slider[2]
Initial == pie_chart = NoFigure /\ scatter_chart = NoFigure /\ pending = DOMAIN CallbackInputs
IsStep(t) == /\ slider_min <= t
             /\ t <= slider_max
             /\ (t - slider_min) % slider_step = 0

RECURSIVE SumV(_)
SumV(sectors) == IF sectors = <<>> THEN 0 ELSE sectors[1].v + SumV(Tail(sectors))

\* ---- C1 -----------------------------------------------------------------------------
\* C1: with low <= high, the frame get_scatter_chart plots holds exactly the
\* rows of spacex_df with low <= payload <= high (both ends included) and,
\* unless the site is "ALL", with the selected site; each row is the dataset's
\* row of the same index label, unaltered, and the rows are in dataset order
\* with no row twice.
C1_CorrelateExact ==
  (ScatterDone /\ IsPair /\ low <= high) =>
    LET res == scatter_chart.frame
        keep == {i \in Rows : /\ low <= PayloadOf(i)
                             /\ PayloadOf(i) <= high
                             /\ (site_dropdown = "ALL" \/ SiteOf(i) = site_dropdown)}
    IN /\ {res[k]["index"] + 1 : k \in 1..Len(res)} = keep
       /\ \A k \in 1..Len(res) : res[k] = spacex_df[res[k]["index"] + 1]
       /\ \A j, k \in 1..Len(res) : j < k => res[j]["index"] < res[k]["index"]

\* a site is selected, a row sits on the upper bound and is kept, another row
\* is dropped
C1_Witness ==
  /\ ScatterDone /\ IsPair /\ low < high
  /\ site_dropdown \in KnownSites
  /\ Len(scatter_chart.frame) < Len(spacex_df)
  /\ \E k \in 1..Len(scatter_chart.frame) :
       scatter_chart.frame[k]["Payload Mass (kg)"] = high

\* ---- C2 -----------------------------------------------------------------------------
\* C2: with low > high, get_scatter_chart plots the same rows as it does for
\* the range (high, low).
C2_RangeOrderIrrelevant ==
  (ScatterDone /\ IsPair /\ low > high) =>
    scatter_chart.frame =
      get_scatter_chart(site_dropdown, <<high, low>>).fig.frame

\* ---- C3 -----------------------------------------------------------------------------
\* C3: for a site other than "ALL", the pie of get_pie_chart has at most two
\* sectors, one per outcome that occurs among the site's rows, the sector's
\* value the number of the site's rows with that outcome; the values sum to
\* the number of rows of the site.
C3_SiteOutcomeCounts ==
  (PieDone /\ site_dropdown # "ALL") =>
    LET e == Sectors(pie_chart)
        n(c) == Cardinality({i \in RowsOfSite(site_dropdown) : ClassOf(i) = c})
    IN /\ Len(e) <= 2
       /\ \A k \in 1..Len(e) : e[k].label \in Classes /\ e[k].v = n(e[k].label)
       /\ \A c \in Classes :
            Cardinality({k \in 1..Len(e) : e[k].label = c})
              = (IF n(c) > 0 THEN 1 ELSE 0)
       /\ SumV(e) = Cardinality(RowsOfSite(site_dropdown))

\* a site with a failure and a success is selected, another site has rows too
C3_Witness ==
  /\ PieDone
  /\ site_dropdown \in KnownSites
  /\ Len(Sectors(pie_chart)) = 2
  /\ Len(spacex_df) >= 2

\* ---- C4 -----------------------------------------------------------------------------
\* C4: for site "ALL", the pie of get_pie_chart has exactly one sector for every
\* site with at least one success row, its value the number of the site's
\* success rows; no other sector has a share (a site without a success has the
\* value 0); the values sum to at most the number of rows.
C4_AllSitesSuccessCounts ==
  (PieDone /\ site_dropdown = "ALL") =>
    LET e == Sectors(pie_chart)
    IN /\ \A s \in KnownSites :
            SuccessesOf(s) # {} =>
              /\ Cardinality({k \in 1..Len(e) : e[k].label = s}) = 1
              /\ \A k \in 1..Len(e) :
                   e[k].label = s => e[k].v = Cardinality(SuccessesOf(s))
       /\ \A k \in 1..Len(e) :
            e[k].v > 0 => e[k].label \in KnownSites /\ SuccessesOf(e[k].label) # {}
       /\ SumV(e) <= Len(spacex_df)

\* one site has a success, the other has rows but none
C4_Witness ==
  /\ PieDone /\ site_dropdown = "ALL" /\ pie_chart.kind = "pie"
  /\ \E s, t \in KnownSites :
       /\ SuccessesOf(s) # {}
       /\ SuccessesOf(t) = {}
       /\ \E k \in 1..Len(Sectors(pie_chart)) :
            Sectors(pie_chart)[k].label = s /\ Sectors(pie_chart)[k].v >= 1

\* ---- C5 -----------------------------------------------------------------------------
\* C5: for a site that is not "ALL" and has no row, and any range of two
\* bounds, both callbacks return (no exception) and their figures are empty:
\* no sector, no plotted row.
C5_UnknownSiteEmpty ==
  (pending = {} /\ IsPair /\ site_dropdown \notin KnownSites \cup {"ALL"}) =>
    /\ exc = "None"
    /\ pie_chart.kind = "pie" /\ Sectors(pie_chart) = <<>>
    /\ scatter_chart.kind = "scatter" /\ scatter_chart.frame = <<>>

\* the unknown site is selected and the range holds rows of the dataset
C5_Witness ==
  /\ pending = {} /\ IsPair
  /\ site_dropdown = UnknownSite
  /\ \E i \in Rows : low <= PayloadOf(i) /\ PayloadOf(i) <= high
  /\ scatter_chart.frame = <<>>

\* ---- C6 -----------------------------------------------------------------------------
\* C6: no run of get_pie_chart or get_scatter_chart lets an exception out.
C6_NoExceptionEscapes == exc = "None"

\* ---- C7 -----------------------------------------------------------------------------
\* C7: dropdown_options starts with the "ALL" option, followed by one option
\* per distinct site of the dataset, none twice, none missing, ordered by the
\* sites' first rows.
C7_OptionsFirstSeen ==
  LET o == dropdown_options
  IN /\ Len(o) >= 1
     /\ o[1] = [label |-> "All Sites", value |-> "ALL"]
     /\ {o[k].value : k \in 2..Len(o)} = KnownSites
     /\ Len(o) = 1 + Cardinality(KnownSites)
     /\ \A k \in 2..Len(o) : o[k].label = o[k].value
     /\ \A j, k \in 2..Len(o) :
          j < k => FirstRowOf(o[j].value) < FirstRowOf(o[k].value)

\* the site that sorts second comes first in the dataset
C7_Witness ==
  /\ Len(dropdown_options) = 3
  /\ dropdown_options[2].value = "B"
  /\ dropdown_options[3].value = "A"

\* ---- C8 -----------------------------------------------------------------------------
\* C8: once the callbacks an event fired have run, the pie is the one
\* get_pie_chart returns for the current site and the scatter the one
\* get_scatter_chart returns for the current site and range.
C8_ChartsFollowSelection ==
  pending = {} =>
    /\ pie_chart = get_pie_chart(site_dropdown).fig
    /\ scatter_chart = get_scatter_chart(site_dropdown, payload_slider).fig

\* a site has been picked and the slider moved off its initial range
C8_Witness ==
  /\ pending = {}
  /\ site_dropdown \in KnownSites
  /\ payload_slider # <<min_payload, max_payload>>
  /\ scatter_chart.frame # <<>>

\* ---- C9 -----------------------------------------------------------------------------
\* C9: the site is "ALL" or a site of the dataset and the range is a pair
\* with 0 <= low <= high <= 10000; initially the site is "ALL" and the
\* range is [min_payload, max_payload].
C9_SelectionWellDefined ==
  /\ site_dropdown \in KnownSites \cup {"ALL"}
  /\ IsPair
  /\ slider_min <= low /\ low <= high /\ high <= slider_max
  /\ Initial => site_dropdown = "ALL" /\ payload_slider = <<min_payload, max_payload>>

\* C9 (amended): the site is "ALL", a site of the dataset or None (dropdown
\* cleared); the range is a pair with low <= high, each bound a slider step
\* within [0, 10000] or still the dataset's min_payload or max_payload;
\* initially the site is "ALL" and the range is [min_payload, max_payload].
C9_SelectionAmended ==
  /\ site_dropdown \in KnownSites \cup {"ALL", NoneSite}
  /\ IsPair
  /\ low <= high
  /\ \A b \in {low, high} : IsStep(b) \/ b \in {min_payload, max_payload}
  /\ Initial => site_dropdown = "ALL" /\ payload_slider = <<min_payload, max_payload>>

\* the dropdown is cleared and both handles have been dragged to steps
C9_Witness ==
  /\ site_dropdown = NoneSite
  /\ IsPair
  /\ low # min_payload /\ high # max_payload
  /\ low < high

\* ---- C10 ----------------------------------------------------------------------------
\* C10: no step changes spacex_df, min_payload, max_payload or
\* dropdown_options.
C10_LoadedDataUnchanged == [][loaded' = loaded]_vars

\* both callbacks have run for a site and a range that drop rows
C10_Witness ==
  /\ pending = {}
  /\ site_dropdown # "ALL"
  /\ pie_chart.kind = "pie" /\ scatter_chart.kind = "scatter"
  /\ scatter_chart.frame # spacex_df
  /\ scatter_chart.frame # <<>>
====
